---- MODULE Spec2Model ----
(***************************************************************************)
(* Model of the http-request-mock rule registry (class Mocker), its        *)
(* matcher (matchMockItem) and the response cycle that interceptors run    *)
(* around it.  Rule objects live in a heap and are referred to by          *)
(* reference, as MockItem instances are in the program.                    *)
(***************************************************************************)
EXTENDS Integers, Sequences, FiniteSets, Bags, TLC

\* ---------------------------------------------------------------- bounds
\* Number of MockItem objects that are ever constructed and stored.
MaxObjs == 3
\* Number of response cycles that are ever started.
MaxCycles == 2
\* Number of Mocker objects that `new` ever allocates.
MaxMockers == 3

\* ------------------------------------------------------------ primitives
\* `null`, the result of matchMockItem when nothing matches.
Null == 0

\* The value of `times` is a number or Infinity.
Infinity == [fin |-> FALSE, n |-> 0]
Finite(k) == [fin |-> TRUE, n |-> k]

\* info.times <= 0
TimesLE0(t) == t.fin /\ t.n <= 0

\* A url matcher that is a plain string, one that is a RegExp, and one that
\* is a RegExp with the global flag.
Str(s) == [re |-> FALSE, g |-> FALSE, src |-> s]
Re(s) == [re |-> TRUE, g |-> FALSE, src |-> s]
ReG(s) == [re |-> TRUE, g |-> TRUE, src |-> s]
\* A rule specification without a usable url.
NoUrl == [re |-> FALSE, g |-> FALSE, src |-> <<>>]
\* A malformed pattern: evaluating it against a url raises.
Malformed == [re |-> TRUE, g |-> FALSE, src |-> <<"(">>]

\* String.prototype.toLowerCase on the method names that occur.
ToLowerCase(m) ==
  CASE m = "GET" -> "get"
    [] m = "POST" -> "post"
    [] m = "PUT" -> "put"
    [] m = "PATCH" -> "patch"
    [] m = "DELETE" -> "delete"
    [] m = "HEAD" -> "head"
    [] m = "ANY" -> "any"
    [] OTHER -> m

\* reqUrl.indexOf(sub) !== -1
Contains(s, sub) ==
  \E i \in 0..(Len(s) - Len(sub)) : SubSeq(s, i + 1, i + Len(sub)) = sub

\* RegExp.prototype.test for the patterns that occur: literal characters,
\* optionally anchored at the start by ^.
RegExpTest(src, s) ==
  IF Len(src) > 0 /\ Head(src) = "^"
    THEN Len(Tail(src)) <= Len(s) /\ SubSeq(s, 1, Len(src) - 1) = Tail(src)
    ELSE Contains(s, src)

\* RegExp.prototype.test of a pattern whose search starts at index `from` of
\* s (its lastIndex when it has the global flag, 0 otherwise).
RegExpTestFrom(src, s, from) ==
  IF Len(src) > 0 /\ Head(src) = "^"
    THEN from = 0 /\ Len(Tail(src)) <= Len(s) /\ SubSeq(s, 1, Len(src) - 1) = Tail(src)
    ELSE \E i \in from..(Len(s) - Len(src)) : SubSeq(s, i + 1, i + Len(src)) = src

\* The index just after the match that RegExpTestFrom finds.
RegExpMatchEnd(src, s, from) ==
  IF Len(src) > 0 /\ Head(src) = "^"
    THEN Len(src) - 1
    ELSE Len(src) + CHOOSE i \in from..(Len(s) - Len(src)) :
           /\ SubSeq(s, i + 1, i + Len(src)) = src
           /\ \A j \in from..(i - 1) : SubSeq(s, j + 1, j + Len(src)) # src

\* The string a url matcher is coerced to when passed to indexOf:
\* a RegExp prints as /source/ followed by its flags.
UrlToString(u) ==
  IF u.re THEN <<"/">> \o u.src \o <<"/">> \o (IF u.g THEN <<"g">> ELSE <<>>)
  ELSE u.src

\* ------------------------------------------------------------- MockItem
\* The key of a rule: derived from its url matcher and its method; the empty
\* key when the specification has no usable url.
NoKey == <<>>
KeyOf(s) == IF s.url = NoUrl THEN NoKey ELSE <<s.url, ToLowerCase(s.method)>>

\* new MockItem(mockItemInfo): the normalized rule object.
MockItem(s) ==
  [key |-> KeyOf(s), url |-> s.url, method |-> s.method, body |-> s.body,
   status |-> s.status, times |-> s.times, delay |-> s.delay,
   disable |-> s.disable, lastIndex |-> 0]

\* --------------------------------------------------------------- inputs
RuleSpec(u, m, st, b, t, d, dis) ==
  [url |-> u, method |-> m, status |-> st, body |-> b, times |-> t,
   delay |-> d, disable |-> dis]

\* The rule specifications that registration calls are made with.
RuleSpecs ==
  { RuleSpec(Str(<<"a">>), "get", 200, "x", Finite(2), 1, "no"),
    RuleSpec(Str(<<"a">>), "get", 404, "y", Finite(1), 0, "yes"),
    RuleSpec(Str(<<"a", "b">>), "get", 200, "z", Finite(1), 1, "no"),
    RuleSpec(Re(<<"^", "a">>), "any", 204, "", Infinity, 0, "no"),
    RuleSpec(NoUrl, "get", 200, "x", Infinity, 0, "no") }

\* The options object of a per-method registration call; an omitted one, given
\* or not, carries no value that is read.
Opts(d, st, t) == [given |-> TRUE, delay |-> d, status |-> st, times |-> t]
NoOpts == [given |-> FALSE, delay |-> 0, status |-> 0, times |-> Infinity]

\* The default value of the opts parameter.
DefaultOpts == Opts(0, 200, Infinity)

\* The arguments of a per-method registration call.
MethodCall(u, b, o) == [url |-> u, body |-> b, opts |-> o]

\* The arguments per-method registration calls are made with: with opts
\* omitted, and with opts that delay the response and bound its uses.
MethodCalls == { MethodCall(Str(<<"a">>), "w", NoOpts) }
TimedCalls == { MethodCall(Str(<<"a">>), "w", Opts(1, 201, Finite(1))) }

\* The requests that matchMockItem and the response cycle are called with;
\* the empty method stands for an omitted one.
Req(u, m) == [url |-> u, method |-> m]
Requests ==
  { Req(<<"a", "b">>, "GET"), Req(<<"a">>, ""),
    Req(<<"/", "^", "a", "/">>, "post") }
NoReq == Req(<<>>, "")

\* ------------------------------------------------------------- registry
\* The position of `key` among the properties of the registry object, 0 when
\* it is no property.
IndexOfKey(cfg, key) ==
  IF \E i \in 1..Len(cfg) : cfg[i].key = key
    THEN CHOOSE i \in 1..Len(cfg) : cfg[i].key = key
    ELSE 0

AddMockItemFirst(cfg, key, ref) ==
  LET i == IndexOfKey(cfg, key) IN
    IF i > 0 THEN [cfg EXCEPT ![i].ref = ref]
    ELSE <<[key |-> key, ref |-> ref]>> \o cfg

AddMockItemAppend(cfg, key, ref) == Append(cfg, [key |-> key, ref |-> ref])

AddMockItemMoved(cfg, key, ref) ==
  Append(SelectSeq(cfg, LAMBDA e : e.key # key), [key |-> key, ref |-> ref])

\* this.mockConfigData[key] = val: an existing property keeps its place, a new
\* one is added after all others.
AddMockItem(cfg, key, ref) ==
  LET i == IndexOfKey(cfg, key) IN
    IF i > 0 THEN [cfg EXCEPT ![i].ref = ref]
    ELSE Append(cfg, [key |-> key, ref |-> ref])

MockUnchecked(hp, cfg, s) ==
  [heap |-> Append(hp, MockItem(s)),
   cfg |-> AddMockItemAppend(cfg, MockItem(s).key, Len(hp) + 1),
   ret |-> Len(hp) + 1]

\* mock(mockItemInfo) on the registry <<hp, cfg>>: the new registry and the
\* returned value (the reference to the new object, or Null for `false`).
Mock(hp, cfg, s) ==
  LET mockItem == MockItem(s) IN
    IF mockItem.key = NoKey
      THEN [heap |-> hp, cfg |-> cfg, ret |-> Null]
      ELSE [heap |-> Append(hp, mockItem),
            cfg |-> AddMockItem(cfg, mockItem.key, Len(hp) + 1),
            ret |-> Len(hp) + 1]

\* The opts parameter with its default value applied.
OptsOf(c) == IF c.opts.given THEN c.opts ELSE DefaultOpts

\* The specification a per-method registration call passes to mock().
MethodSpec(method, c, body) ==
  RuleSpec(c.url, method, OptsOf(c).status, body, OptsOf(c).times, OptsOf(c).delay, "no")

\* get, post, put, patch, delete, head and any on the registry <<hp, cfg>>.
Get(hp, cfg, c) == Mock(hp, cfg, MethodSpec("get", c, c.body))
Post(hp, cfg, c) == Mock(hp, cfg, MethodSpec("post", c, c.body))
Put(hp, cfg, c) == Mock(hp, cfg, MethodSpec("put", c, c.body))
Patch(hp, cfg, c) == Mock(hp, cfg, MethodSpec("patch", c, c.body))
Delete(hp, cfg, c) == Mock(hp, cfg, MethodSpec("delete", c, c.body))
HeadMethod(hp, cfg, c) == Mock(hp, cfg, MethodSpec("head", c, ""))
AnyMethod(hp, cfg, c) == Mock(hp, cfg, MethodSpec("any", c, c.body))

RECURSIVE SetMockDataUntilFailure(_, _, _)
SetMockDataUntilFailure(hp, cfg, data) ==
  IF data = <<>> THEN [heap |-> hp, cfg |-> cfg, ret |-> Null]
  ELSE LET r == Mock(hp, cfg, Head(data)) IN
         IF r.ret = Null THEN [heap |-> hp, cfg |-> cfg, ret |-> Null]
         ELSE SetMockDataUntilFailure(r.heap, r.cfg, Tail(data))

\* setMockData(mockConfigData): mock() on each entry, in iteration order.
RECURSIVE SetMockData(_, _, _)
SetMockData(hp, cfg, data) ==
  IF data = <<>> THEN [heap |-> hp, cfg |-> cfg, ret |-> Null]
  ELSE LET r == Mock(hp, cfg, Head(data)) IN
         SetMockData(r.heap, r.cfg, Tail(data))

\* -------------------------------------------------------------- matcher
SkippedOnlyDisabled(info) == info.disable = "yes"

SkippedBelowZero(info) == info.disable = "yes" \/ (info.times.fin /\ info.times.n < 0)

\* info.disable === 'yes' || (typeof info.times !== 'undefined' && info.times <= 0)
Skipped(info) == info.disable = "yes" \/ TimesLE0(info.times)

MethodDiffersExact(info, requestMethod) ==
  ToLowerCase(info.method) # ToLowerCase(requestMethod)

\* method !== 'any' && method !== `${requestMethod}`.toLowerCase()
MethodDiffers(info, requestMethod) ==
  LET method == ToLowerCase(info.method) IN
    method # "any" /\ method # ToLowerCase(requestMethod)

\* Evaluating the url test of the rule raises.
Raises(info, reqUrl) == info.url = Malformed

\* The index at which info.url.test starts its search.
SearchFrom(info) == IF info.url.g THEN info.lastIndex ELSE 0

\* The two url tests: the RegExp test, then indexOf on the matcher coerced to
\* a string.
UrlMatches(info, reqUrl) ==
  \/ info.url.re /\ RegExpTestFrom(info.url.src, reqUrl, SearchFrom(info))
  \/ Contains(reqUrl, UrlToString(info.url))

\* info.url.lastIndex after info.url.test(reqUrl): a RegExp with the global
\* flag keeps the end of its match, and 0 when it found none.
AfterTest(info, reqUrl) ==
  IF ~(info.url.re /\ info.url.g) THEN info.lastIndex
  ELSE IF RegExpTestFrom(info.url.src, reqUrl, info.lastIndex)
    THEN RegExpMatchEnd(info.url.src, reqUrl, info.lastIndex)
  ELSE 0

\* The loop of matchMockItem when one raising rule ends the whole pass.
RECURSIVE MatchFromUncaught(_, _, _, _, _)
MatchFromUncaught(hp, cfg, i, reqUrl, requestMethod) ==
  IF i > Len(cfg) THEN Null
  ELSE
    LET info == hp[cfg[i].ref] IN
      IF Skipped(info)
        THEN MatchFromUncaught(hp, cfg, i + 1, reqUrl, requestMethod)
      ELSE IF MethodDiffers(info, requestMethod)
        THEN MatchFromUncaught(hp, cfg, i + 1, reqUrl, requestMethod)
      ELSE IF Raises(info, reqUrl)
        THEN Null
      ELSE IF UrlMatches(info, reqUrl)
        THEN cfg[i].ref
      ELSE MatchFromUncaught(hp, cfg, i + 1, reqUrl, requestMethod)

\* The loop of matchMockItem over the registry's properties from position i on.
RECURSIVE MatchFrom(_, _, _, _, _)
MatchFrom(hp, cfg, i, reqUrl, requestMethod) ==
  IF i > Len(cfg) THEN Null
  ELSE
    LET info == hp[cfg[i].ref] IN
      IF Skipped(info)
        THEN MatchFrom(hp, cfg, i + 1, reqUrl, requestMethod)
      ELSE IF MethodDiffers(info, requestMethod)
        THEN MatchFrom(hp, cfg, i + 1, reqUrl, requestMethod)
      ELSE IF Raises(info, reqUrl)
        THEN MatchFrom(hp, cfg, i + 1, reqUrl, requestMethod)
      ELSE IF UrlMatches(info, reqUrl)
        THEN cfg[i].ref
      ELSE MatchFrom(hp, cfg, i + 1, reqUrl, requestMethod)

\* The rule objects after that loop: each RegExp that was tested has its new
\* lastIndex.
RECURSIVE TestedFrom(_, _, _, _, _)
TestedFrom(hp, cfg, i, reqUrl, requestMethod) ==
  IF i > Len(cfg) THEN hp
  ELSE
    LET info == hp[cfg[i].ref] IN
      IF Skipped(info) \/ MethodDiffers(info, requestMethod) \/ Raises(info, reqUrl)
        THEN TestedFrom(hp, cfg, i + 1, reqUrl, requestMethod)
      ELSE
        LET tested == [hp EXCEPT ![cfg[i].ref].lastIndex = AfterTest(info, reqUrl)] IN
          IF UrlMatches(info, reqUrl) THEN tested
          ELSE TestedFrom(tested, cfg, i + 1, reqUrl, requestMethod)

\* const requestMethod = reqMethod || 'get'
RequestMethod(reqMethod) == IF reqMethod = "" THEN "get" ELSE reqMethod

MatchMockItemAlways(hp, cfg, dis, reqUrl, reqMethod) ==
  MatchFrom(hp, cfg, 1, reqUrl, RequestMethod(reqMethod))

\* matchMockItem(reqUrl, reqMethod) on the registry <<hp, cfg>> with switch dis.
MatchMockItem(hp, cfg, dis, reqUrl, reqMethod) ==
  IF dis THEN Null
  ELSE MatchFrom(hp, cfg, 1, reqUrl, RequestMethod(reqMethod))

\* The rule objects after matchMockItem(reqUrl, reqMethod).
Tested(hp, cfg, dis, reqUrl, reqMethod) ==
  IF dis THEN hp
  ELSE TestedFrom(hp, cfg, 1, reqUrl, RequestMethod(reqMethod))

\* ------------------------------------------------------- response cycle
DecTimesUnchecked(t) == IF t.fin THEN Finite(t.n - 1) ELSE t

\* The decrement of the matched rule's times when its response is produced:
\* by one if it is finite, never below 0.
DecTimes(t) == IF t.fin /\ t.n > 0 THEN Finite(t.n - 1) ELSE t

CancelTimesConsumed(t) == IF t.fin /\ t.n > 0 THEN Finite(t.n - 1) ELSE t

\* What a cancelled delay does to the matched rule's times: nothing.
CancelTimes(t) == t

BuildResponseRuleBody(info, reqMethod) == [status |-> info.status, body |-> info.body]

\* The synthesized response: the rule's status, and its body unless the
\* request is a HEAD request.
NoResp == [status |-> 0, body |-> ""]
BuildResponse(info, reqMethod) ==
  [status |-> info.status,
   body |-> IF ToLowerCase(reqMethod) = "head" THEN "" ELSE info.body]

\* Whether a cycle that matched this rule is suspended before it responds.
Suspends(info) == info.delay > 0

\* Mocker objects are numbered in the order `new` allocates them.
NoMocker == 0
FirstMocker == 1

VARIABLES
  heap,            \* the MockItem objects constructed so far, by reference
  mockConfigData,  \* the registry: property list of [key, ref], in property order
  disabled,        \* Mocker.disabled
  log,             \* Mocker.log
  lastCall,        \* the call that has just returned and what it returned
  waiting,         \* the bag of response cycles suspended in their delay
  started,         \* the number of response cycles that matched a rule so far
  served,          \* history: per MockItem object, the responses returned from it
  times0,          \* history: per MockItem object, the times it was registered with
  cli,             \* the command line tool: its options and where its control is
  instance,        \* Mocker.instance: the Mocker object it refers to, NoMocker when unset
  created          \* the number of Mocker objects `new` has allocated so far

vars == <<heap, mockConfigData, disabled, log, lastCall, waiting, started, served, times0, cli, instance, created>>

\* The history of registered times, extended to the objects of the heap hp.
Registered(hp) ==
  [i \in 1..Len(hp) |-> IF i <= Len(times0) THEN times0[i] ELSE hp[i].times]

\* The history of returned responses, extended to the objects of the heap hp.
ServedOf(hp) ==
  [i \in 1..Len(hp) |-> IF i <= Len(served) THEN served[i] ELSE 0]

\* The cycles suspended in their delay on the rule object ref.
Waiting(ref) == {c \in BagToSet(waiting) : c.ref = ref}

Call(op, req, ret, resp) == [op |-> op, req |-> req, ret |-> ret, resp |-> resp]

\* No call has just returned.
NoCall == Call("none", NoReq, Null, NoResp)

\* The options of the command line tool: init, inject and proto are given or
\* not; watch is not given ("off"), given without a command ("on") or with one
\* ("cmd"); proxy has its mode, 'none' when it is not given.
Program(i, j, w, pr, px) ==
  [init |-> i, inject |-> j, watch |-> w, proto |-> pr, proxy |-> px]

Programs ==
  { Program(i, j, w, pr, px) :
      i \in BOOLEAN, j \in BOOLEAN, w \in {"off", "on", "cmd"},
      pr \in BOOLEAN, px \in {"none", "matched", "marked", "other"} }

\* No file event was delivered yet; recorded tells whether the path of the
\* event was in pathsSet when the event arrived.
NoEvent == [type |-> "", path |-> <<>>, recorded |-> FALSE]

\* server.reload was not called by the regeneration.
NoReload == [called |-> FALSE, list |-> {}]

\* The command line tool with options p, its control at pc; serverInit is the
\* proxyMode server.init was called with ("" when it was not called), helped
\* whether program.help() was called, ran the method or callback that returned
\* last.  The locals of watch() its callbacks close over: proxyServer (whether
\* it is non-null), pathsSet, timer (the id setTimeout returned last, Null
\* before the first).  pending holds the ids of the timers that are scheduled,
\* timers counts the calls of setTimeout, runtime those of
\* webpack.setRuntimeConfigFile(); event is the file event delivered last and
\* reload the call of server.reload of the regeneration that ran last.
Cli(p, pc, serverInit, helped) ==
  [program |-> p, pc |-> pc, serverInit |-> serverInit, helped |-> helped,
   ran |-> "", proxyServer |-> FALSE, pathsSet |-> {}, timer |-> Null,
   pending |-> {}, timers |-> 0, runtime |-> 0, event |-> NoEvent,
   reload |-> NoReload]

\* The command line tool is not run.
NoCli == Cli(Program(FALSE, FALSE, "off", FALSE, "none"), "off", "", FALSE)

\* The Mocker after construction.
InitMocker ==
  /\ heap = <<>>
  /\ mockConfigData = <<>>
  /\ disabled = FALSE
  /\ log \in BOOLEAN
  /\ instance = FirstMocker
  /\ created = FirstMocker
  /\ lastCall = NoCall
  /\ waiting = EmptyBag
  /\ started = 0
  /\ served = <<>>
  /\ times0 = <<>>

Init ==
  /\ InitMocker
  /\ cli = NoCli

\* The fields of Mocker.instance, Mocker.instance itself and the returned object.
Mocker(cfg, dis, lg, inst, ret) ==
  [mockConfigData |-> cfg, disabled |-> dis, log |-> lg, instance |-> inst, ret |-> ret]

ConstructAlways(m, this, isNode) == Mocker(<<>>, FALSE, ~isNode, this, this)

\* The constructor run on the newly allocated object `this`, m being the
\* fields of Mocker.instance: when Mocker.instance is set it is returned and
\* `this`, on which the field initializers ran, is dropped; otherwise `this`
\* becomes Mocker.instance, with disabled false, log = !isNodejs() and no rule.
Construct(m, this, isNode) ==
  IF m.instance # NoMocker THEN [m EXCEPT !.ret = m.instance]
  ELSE Mocker(<<>>, FALSE, ~isNode, this, this)

\* new Mocker()
DoNew(isNode) ==
  /\ lastCall = NoCall
  /\ created < MaxMockers
  /\ LET r == Construct(Mocker(mockConfigData, disabled, log, instance, NoMocker),
                        created + 1, isNode)
     IN
       /\ created' = created + 1
       /\ instance' = r.instance
       /\ mockConfigData' = r.mockConfigData
       /\ disabled' = r.disabled
       /\ log' = r.log
       /\ lastCall' = Call("new", NoReq, r.ret, NoResp)
  /\ UNCHANGED <<heap, waiting, started, served, times0, cli>>

\* Mocker.getInstance(): return new Mocker()
DoGetInstance(isNode) ==
  /\ lastCall = NoCall
  /\ created < MaxMockers
  /\ LET r == Construct(Mocker(mockConfigData, disabled, log, instance, NoMocker),
                        created + 1, isNode)
     IN
       /\ created' = created + 1
       /\ instance' = r.instance
       /\ mockConfigData' = r.mockConfigData
       /\ disabled' = r.disabled
       /\ log' = r.log
       /\ lastCall' = Call("getInstance", NoReq, r.ret, NoResp)
  /\ UNCHANGED <<heap, waiting, started, served, times0, cli>>

\* mock(s)
DoMock(s) ==
  /\ instance # NoMocker /\ lastCall = NoCall
  /\ LET r == Mock(heap, mockConfigData, s) IN
       /\ Len(r.heap) <= MaxObjs
       /\ heap' = r.heap
       /\ mockConfigData' = r.cfg
       /\ times0' = Registered(r.heap)
       /\ served' = ServedOf(r.heap)
       /\ lastCall' = Call("mock", NoReq, r.ret, NoResp)
       /\ UNCHANGED <<disabled, log, waiting, started, cli, instance, created>>

\* setMockData(data)
DoSetMockData(data) ==
  /\ instance # NoMocker /\ lastCall = NoCall
  /\ LET r == SetMockData(heap, mockConfigData, data) IN
       /\ Len(r.heap) <= MaxObjs
       /\ heap' = r.heap
       /\ mockConfigData' = r.cfg
       /\ times0' = Registered(r.heap)
       /\ served' = ServedOf(r.heap)
       /\ lastCall' = Call("setMockData", NoReq, Null, NoResp)
       /\ UNCHANGED <<disabled, log, waiting, started, cli, instance, created>>

DoResetAll ==
  /\ instance # NoMocker /\ lastCall = NoCall
  /\ LET r == SetMockData(heap, mockConfigData, <<>>) IN
       /\ heap' = r.heap
       /\ mockConfigData' = r.cfg
       /\ times0' = Registered(r.heap)
       /\ served' = ServedOf(r.heap)
       /\ lastCall' = Call("reset", NoReq, Null, NoResp)
       /\ disabled' = FALSE
       /\ log' = FALSE
       /\ UNCHANGED <<waiting, started, cli, instance, created>>

\* reset(): this.setMockData({})
DoReset ==
  /\ instance # NoMocker /\ lastCall = NoCall
  /\ LET r == SetMockData(heap, mockConfigData, <<>>) IN
       /\ heap' = r.heap
       /\ mockConfigData' = r.cfg
       /\ times0' = Registered(r.heap)
       /\ served' = ServedOf(r.heap)
       /\ lastCall' = Call("reset", NoReq, Null, NoResp)
       /\ UNCHANGED <<disabled, log, waiting, started, cli, instance, created>>

\* enable()
DoEnable ==
  /\ instance # NoMocker /\ lastCall = NoCall
  /\ disabled' = FALSE
  /\ lastCall' = Call("enable", NoReq, Null, NoResp)
  /\ UNCHANGED <<heap, mockConfigData, log, waiting, started, served, times0, cli, instance, created>>

\* disable()
DoDisable ==
  /\ instance # NoMocker /\ lastCall = NoCall
  /\ disabled' = TRUE
  /\ lastCall' = Call("disable", NoReq, Null, NoResp)
  /\ UNCHANGED <<heap, mockConfigData, log, waiting, started, served, times0, cli, instance, created>>

\* disableLog()
DoDisableLog ==
  /\ instance # NoMocker /\ lastCall = NoCall
  /\ log' = FALSE
  /\ lastCall' = Call("disableLog", NoReq, Null, NoResp)
  /\ UNCHANGED <<heap, mockConfigData, disabled, waiting, started, served, times0, cli, instance, created>>

\* enableLog()
DoEnableLog ==
  /\ instance # NoMocker /\ lastCall = NoCall
  /\ log' = TRUE
  /\ lastCall' = Call("enableLog", NoReq, Null, NoResp)
  /\ UNCHANGED <<heap, mockConfigData, disabled, waiting, started, served, times0, cli, instance, created>>

\* get(c.url, c.body, c.opts); it returns the Mocker itself.
DoGet(c) ==
  /\ instance # NoMocker /\ lastCall = NoCall
  /\ LET r == Get(heap, mockConfigData, c) IN
       /\ Len(r.heap) <= MaxObjs
       /\ heap' = r.heap
       /\ mockConfigData' = r.cfg
       /\ times0' = Registered(r.heap)
       /\ served' = ServedOf(r.heap)
       /\ lastCall' = Call("get", NoReq, Null, NoResp)
  /\ UNCHANGED <<disabled, log, waiting, started, cli, instance, created>>

\* post(c.url, c.body, c.opts); it returns the Mocker itself.
DoPost(c) ==
  /\ instance # NoMocker /\ lastCall = NoCall
  /\ LET r == Post(heap, mockConfigData, c) IN
       /\ Len(r.heap) <= MaxObjs
       /\ heap' = r.heap
       /\ mockConfigData' = r.cfg
       /\ times0' = Registered(r.heap)
       /\ served' = ServedOf(r.heap)
       /\ lastCall' = Call("post", NoReq, Null, NoResp)
  /\ UNCHANGED <<disabled, log, waiting, started, cli, instance, created>>

\* put(c.url, c.body, c.opts); it returns the Mocker itself.
DoPut(c) ==
  /\ instance # NoMocker /\ lastCall = NoCall
  /\ LET r == Put(heap, mockConfigData, c) IN
       /\ Len(r.heap) <= MaxObjs
       /\ heap' = r.heap
       /\ mockConfigData' = r.cfg
       /\ times0' = Registered(r.heap)
       /\ served' = ServedOf(r.heap)
       /\ lastCall' = Call("put", NoReq, Null, NoResp)
  /\ UNCHANGED <<disabled, log, waiting, started, cli, instance, created>>

\* patch(c.url, c.body, c.opts); it returns the Mocker itself.
DoPatch(c) ==
  /\ instance # NoMocker /\ lastCall = NoCall
  /\ LET r == Patch(heap, mockConfigData, c) IN
       /\ Len(r.heap) <= MaxObjs
       /\ heap' = r.heap
       /\ mockConfigData' = r.cfg
       /\ times0' = Registered(r.heap)
       /\ served' = ServedOf(r.heap)
       /\ lastCall' = Call("patch", NoReq, Null, NoResp)
  /\ UNCHANGED <<disabled, log, waiting, started, cli, instance, created>>

\* delete(c.url, c.body, c.opts); it returns the Mocker itself.
DoDelete(c) ==
  /\ instance # NoMocker /\ lastCall = NoCall
  /\ LET r == Delete(heap, mockConfigData, c) IN
       /\ Len(r.heap) <= MaxObjs
       /\ heap' = r.heap
       /\ mockConfigData' = r.cfg
       /\ times0' = Registered(r.heap)
       /\ served' = ServedOf(r.heap)
       /\ lastCall' = Call("delete", NoReq, Null, NoResp)
  /\ UNCHANGED <<disabled, log, waiting, started, cli, instance, created>>

\* head(c.url, c.opts); it returns the Mocker itself.
DoHead(c) ==
  /\ instance # NoMocker /\ lastCall = NoCall
  /\ LET r == HeadMethod(heap, mockConfigData, c) IN
       /\ Len(r.heap) <= MaxObjs
       /\ heap' = r.heap
       /\ mockConfigData' = r.cfg
       /\ times0' = Registered(r.heap)
       /\ served' = ServedOf(r.heap)
       /\ lastCall' = Call("head", NoReq, Null, NoResp)
  /\ UNCHANGED <<disabled, log, waiting, started, cli, instance, created>>

\* any(c.url, c.body, c.opts); it returns the Mocker itself.
DoAny(c) ==
  /\ instance # NoMocker /\ lastCall = NoCall
  /\ LET r == AnyMethod(heap, mockConfigData, c) IN
       /\ Len(r.heap) <= MaxObjs
       /\ heap' = r.heap
       /\ mockConfigData' = r.cfg
       /\ times0' = Registered(r.heap)
       /\ served' = ServedOf(r.heap)
       /\ lastCall' = Call("any", NoReq, Null, NoResp)
  /\ UNCHANGED <<disabled, log, waiting, started, cli, instance, created>>

\* matchMockItem(req.url, req.method)
DoMatch(req) ==
  /\ instance # NoMocker /\ lastCall = NoCall
  /\ lastCall' = Call("match", req,
                      MatchMockItem(heap, mockConfigData, disabled, req.url, req.method),
                      NoResp)
  /\ heap' = Tested(heap, mockConfigData, disabled, req.url, req.method)
  /\ UNCHANGED <<mockConfigData, disabled, log, waiting, started, served, times0, cli, instance, created>>

\* A suspended cycle that has matched the rule object ref; t0 and s0 are the
\* rule's times and the number of responses returned from it when the cycle
\* started.
Cycle(ref, req, t0, s0) == [ref |-> ref, req |-> req, t0 |-> t0, s0 |-> s0]

\* The heap after a response has been produced from the rule object ref.
Consume(hp, ref) == [hp EXCEPT ![ref].times = DecTimes(hp[ref].times)]

\* The heap after a cycle suspended on the rule object ref was cancelled.
Release(hp, ref) == [hp EXCEPT ![ref].times = CancelTimes(hp[ref].times)]

DoRespondSerial(req) ==
  /\ waiting = EmptyBag
  /\ LET ref == MatchMockItem(heap, mockConfigData, disabled, req.url, req.method)
           tested == Tested(heap, mockConfigData, disabled, req.url, req.method)
       IN
         \/ /\ instance # NoMocker /\ lastCall = NoCall
            /\ ref = Null
            /\ lastCall' = Call("passthrough", req, Null, NoResp)
            /\ heap' = tested
            /\ UNCHANGED <<mockConfigData, disabled, log, waiting, started, served, times0, cli, instance, created>>
         \/ /\ instance # NoMocker /\ lastCall = NoCall
            /\ ref # Null
            /\ started < MaxCycles
            /\ ~Suspends(heap[ref])
            /\ heap' = Consume(tested, ref)
            /\ served' = [served EXCEPT ![ref] = @ + 1]
            /\ started' = started + 1
            /\ lastCall' = Call("respond", req, ref, BuildResponse(heap[ref], req.method))
            /\ UNCHANGED <<mockConfigData, disabled, log, waiting, times0, cli, instance, created>>
         \/ /\ instance # NoMocker /\ lastCall = NoCall
            /\ ref # Null
            /\ started < MaxCycles
            /\ Suspends(heap[ref])
            /\ waiting' = waiting (+) SetToBag({Cycle(ref, req, heap[ref].times, served[ref])})
            /\ started' = started + 1
            /\ lastCall' = Call("suspend", req, ref, NoResp)
            /\ heap' = tested
            /\ UNCHANGED <<mockConfigData, disabled, log, served, times0, cli, instance, created>>

\* respond(req) up to its suspension point: no match is a passthrough; a match
\* without delay produces the response at once; a match with a delay suspends.
DoRespond(req) ==
  LET ref == MatchMockItem(heap, mockConfigData, disabled, req.url, req.method)
      tested == Tested(heap, mockConfigData, disabled, req.url, req.method)
  IN
    \/ /\ instance # NoMocker /\ lastCall = NoCall
       /\ ref = Null
       /\ lastCall' = Call("passthrough", req, Null, NoResp)
       /\ heap' = tested
       /\ UNCHANGED <<mockConfigData, disabled, log, waiting, started, served, times0, cli, instance, created>>
    \/ /\ instance # NoMocker /\ lastCall = NoCall
       /\ ref # Null
       /\ started < MaxCycles
       /\ ~Suspends(heap[ref])
       /\ heap' = Consume(tested, ref)
       /\ served' = [served EXCEPT ![ref] = @ + 1]
       /\ started' = started + 1
       /\ lastCall' = Call("respond", req, ref, BuildResponse(heap[ref], req.method))
       /\ UNCHANGED <<mockConfigData, disabled, log, waiting, times0, cli, instance, created>>
    \/ /\ instance # NoMocker /\ lastCall = NoCall
       /\ ref # Null
       /\ started < MaxCycles
       /\ Suspends(heap[ref])
       /\ waiting' = waiting (+) SetToBag({Cycle(ref, req, heap[ref].times, served[ref])})
       /\ started' = started + 1
       /\ lastCall' = Call("suspend", req, ref, NoResp)
       /\ heap' = tested
       /\ UNCHANGED <<mockConfigData, disabled, log, served, times0, cli, instance, created>>

\* The delay of the suspended cycle c has elapsed: the rule's times is
\* decremented and the response is returned.
DoComplete(c) ==
  /\ instance # NoMocker /\ lastCall = NoCall
  /\ heap' = Consume(heap, c.ref)
  /\ served' = [served EXCEPT ![c.ref] = @ + 1]
  /\ waiting' = waiting (-) SetToBag({c})
  /\ lastCall' = Call("respond", c.req, c.ref, BuildResponse(heap[c.ref], c.req.method))
  /\ UNCHANGED <<mockConfigData, disabled, log, started, times0, cli, instance, created>>

\* The caller cancels the cycle c while it is suspended in its delay.
DoCancel(c) ==
  /\ instance # NoMocker /\ lastCall = NoCall
  /\ heap' = Release(heap, c.ref)
  /\ waiting' = waiting (-) SetToBag({c})
  /\ lastCall' = Call("cancel", c.req, c.ref, NoResp)
  /\ UNCHANGED <<mockConfigData, disabled, log, started, served, times0, cli, instance, created>>

\* The mappings setMockData is called with, as the sequence of their entries
\* in iteration order.
MockData ==
  { <<RuleSpec(Str(<<"a", "b">>), "get", 200, "z", Finite(1), 1, "no"),
      RuleSpec(NoUrl, "get", 200, "x", Infinity, 0, "no"),
      RuleSpec(Str(<<"a">>), "get", 404, "y", Finite(1), 0, "yes")>>,
    <<RuleSpec(Re(<<"^", "a">>), "any", 204, "", Infinity, 0, "no")>> }

\* The caller has taken the value the last call returned.
DoReturn ==
  /\ lastCall # NoCall
  /\ lastCall' = NoCall
  /\ UNCHANGED <<heap, mockConfigData, disabled, log, waiting, started, served, times0, cli, instance, created>>

\* The calls and the continuations of suspended cycles run one at a time, each
\* to its end or to its suspension point.
Next ==
  \/ \E s \in RuleSpecs : DoMock(s)
  \/ \E data \in MockData : DoSetMockData(data)
  \/ DoReset
  \/ DoEnable
  \/ DoDisable
  \/ DoDisableLog
  \/ DoEnableLog
  \/ \E req \in Requests : DoMatch(req)
  \/ \E req \in Requests : DoRespond(req)
  \/ \E c \in BagToSet(waiting) : DoComplete(c)
  \/ \E c \in BagToSet(waiting) : DoCancel(c)
  \/ DoReturn

Spec == Init /\ [][Next]_vars

\* The program with rules for HEAD requests: registered through mock with
\* method HEAD and a body, through head, and through any and setMockData with
\* method any and a body.
HeadRuleSpecs ==
  { RuleSpec(Str(<<"a">>), "HEAD", 200, "x", Finite(1), 1, "no"),
    RuleSpec(NoUrl, "HEAD", 200, "x", Infinity, 0, "no") }

MethodMockData ==
  { <<RuleSpec(Str(<<"a">>), "any", 200, "w", Infinity, 0, "no")>> }

MethodRequests == { Req(<<"a">>, "HEAD"), Req(<<"a">>, "post") }

NextHead ==
  \/ \E s \in HeadRuleSpecs : DoMock(s)
  \/ \E data \in MethodMockData : DoSetMockData(data)
  \/ DoReset
  \/ DoEnable
  \/ DoDisable
  \/ DoDisableLog
  \/ DoEnableLog
  \/ \E c \in MethodCalls : DoHead(c)
  \/ \E c \in MethodCalls : DoAny(c)
  \/ \E req \in MethodRequests : DoMatch(req)
  \/ \E req \in MethodRequests : DoRespond(req)
  \/ \E c \in BagToSet(waiting) : DoComplete(c)
  \/ \E c \in BagToSet(waiting) : DoCancel(c)
  \/ DoReturn

SpecHead == Init /\ [][NextHead]_vars

\* The program with rules registered through each of the per-method calls.
MethodRuleSpecs ==
  { RuleSpec(Str(<<"a">>), "get", 200, "w", Infinity, 0, "no"),
    RuleSpec(NoUrl, "get", 200, "w", Infinity, 0, "no") }

NextMethods ==
  \/ \E s \in MethodRuleSpecs : DoMock(s)
  \/ \E data \in MethodMockData : DoSetMockData(data)
  \/ DoReset
  \/ DoEnable
  \/ DoDisable
  \/ DoDisableLog
  \/ DoEnableLog
  \/ \E c \in MethodCalls : DoGet(c)
  \/ \E c \in TimedCalls : DoPost(c)
  \/ \E c \in MethodCalls : DoPut(c)
  \/ \E c \in MethodCalls : DoPatch(c)
  \/ \E c \in MethodCalls : DoDelete(c)
  \/ \E c \in MethodCalls : DoHead(c)
  \/ \E c \in MethodCalls : DoAny(c)
  \/ \E req \in MethodRequests : DoMatch(req)
  \/ \E req \in MethodRequests : DoRespond(req)
  \/ \E c \in BagToSet(waiting) : DoComplete(c)
  \/ \E c \in BagToSet(waiting) : DoCancel(c)
  \/ DoReturn

SpecMethods == Init /\ [][NextMethods]_vars

\* The program with rules whose url matcher is a RegExp with the global flag
\* or a malformed pattern.
PatternRuleSpecs ==
  { RuleSpec(Malformed, "any", 200, "m", Infinity, 0, "no"),
    RuleSpec(ReG(<<"a">>), "get", 200, "g", Infinity, 0, "no"),
    RuleSpec(Str(<<"a">>), "get", 200, "x", Finite(1), 1, "no") }

PatternMockData ==
  { <<RuleSpec(Malformed, "any", 200, "m", Infinity, 0, "no"),
      RuleSpec(Str(<<"a">>), "get", 200, "x", Finite(1), 1, "no")>> }

PatternRequests == { Req(<<"a", "a">>, "GET"), Req(<<"b">>, "") }

NextPatterns ==
  \/ \E s \in PatternRuleSpecs : DoMock(s)
  \/ \E data \in PatternMockData : DoSetMockData(data)
  \/ DoReset
  \/ DoEnable
  \/ DoDisable
  \/ DoDisableLog
  \/ DoEnableLog
  \/ \E req \in PatternRequests : DoMatch(req)
  \/ \E req \in PatternRequests : DoRespond(req)
  \/ \E c \in BagToSet(waiting) : DoComplete(c)
  \/ \E c \in BagToSet(waiting) : DoCancel(c)
  \/ DoReturn

SpecPatterns == Init /\ [][NextPatterns]_vars

\* The program from before the first Mocker is constructed.
SingletonRuleSpecs ==
  { RuleSpec(Str(<<"a">>), "get", 200, "x", Infinity, 0, "no"),
    RuleSpec(Str(<<"a">>), "post", 200, "x", Infinity, 0, "no") }

SingletonRequests == { Req(<<"a">>, "") }

InitSingleton ==
  /\ heap = <<>>
  /\ mockConfigData = <<>>
  /\ disabled = FALSE
  /\ log = FALSE
  /\ instance = NoMocker
  /\ created = 0
  /\ lastCall = NoCall
  /\ waiting = EmptyBag
  /\ started = 0
  /\ served = <<>>
  /\ times0 = <<>>
  /\ cli = NoCli

NextSingleton ==
  \/ \E isNode \in BOOLEAN : DoNew(isNode)
  \/ \E isNode \in BOOLEAN : DoGetInstance(isNode)
  \/ \E s \in SingletonRuleSpecs : DoMock(s)
  \/ DoReset
  \/ DoEnable
  \/ DoDisable
  \/ DoDisableLog
  \/ DoEnableLog
  \/ \E req \in SingletonRequests : DoMatch(req)
  \/ DoReturn

SpecSingleton == InitSingleton /\ [][NextSingleton]_vars

\* ----------------------------------------------------- command line tool
mockerVars ==
  <<heap, mockConfigData, disabled, log, lastCall, waiting, started, served, times0,
    instance, created>>

\* program.proxy === 'matched' && program.proxy === 'marked'
ProxyBothModes(p) == p.proxy = "matched" /\ p.proxy = "marked"

\* program.proxy === 'matched' || program.proxy === 'marked'
ProxyEitherMode(p) == p.proxy = "matched" \/ p.proxy = "marked"

\* The handler main() passes control to.
MainHandler(p) ==
  IF p.init THEN "init"
  ELSE IF p.inject THEN "inject"
  ELSE IF p.watch # "off" THEN "watch"
  ELSE IF p.proto THEN "proto"
  ELSE IF ProxyBothModes(p) THEN "proxy"
  ELSE "help"

\* The constructor has parsed the options and calls main().
CliMain ==
  /\ cli.pc = "main"
  /\ cli' = [cli EXCEPT !.pc = MainHandler(cli.program), !.ran = "main"]
  /\ UNCHANGED mockerVars

\* init()
CliInit ==
  /\ cli.pc = "init"
  /\ cli' = [cli EXCEPT !.pc = "idle", !.ran = "init"]
  /\ UNCHANGED mockerVars

\* inject()
CliInject ==
  /\ cli.pc = "inject"
  /\ cli' = [cli EXCEPT !.pc = "idle", !.ran = "inject"]
  /\ UNCHANGED mockerVars

\* watch() up to the start of the file watcher: it returns early when the mock
\* directory holds no .runtime.js, and starts the proxy server first when the
\* proxy mode is matched or marked (server.init resolves to the address of the
\* server, so proxyServer is non-null exactly then); it regenerates the runtime
\* configuration once before the watcher starts.
CliWatch(runtimeExists) ==
  /\ cli.pc = "watch"
  /\ cli' = IF ~runtimeExists THEN [cli EXCEPT !.pc = "idle", !.ran = "watch"]
            ELSE IF ProxyEitherMode(cli.program)
              THEN [cli EXCEPT !.pc = "watching", !.ran = "watch",
                               !.serverInit = cli.program.proxy,
                               !.proxyServer = TRUE, !.runtime = 1]
            ELSE [cli EXCEPT !.pc = "watching", !.ran = "watch", !.runtime = 1]
  /\ UNCHANGED mockerVars

\* proto()
CliProto ==
  /\ cli.pc = "proto"
  /\ cli' = [cli EXCEPT !.pc = "idle", !.ran = "proto"]
  /\ UNCHANGED mockerVars

\* proxy(), called by main() or, on the exported object, by its importer.
CliProxy ==
  /\ cli.pc \in {"proxy", "idle", "watching"}
  /\ cli' = [cli EXCEPT
              !.pc = IF @ = "proxy" THEN "idle" ELSE @,
              !.ran = "proxy",
              !.serverInit = IF ProxyBothModes(cli.program) THEN cli.program.proxy ELSE @]
  /\ UNCHANGED mockerVars

\* program.help(): prints the usage and ends the process.
CliHelp ==
  /\ cli.pc = "help"
  /\ cli' = [cli EXCEPT !.pc = "exited", !.helped = TRUE, !.ran = "help"]
  /\ UNCHANGED mockerVars

InitCli ==
  /\ InitMocker
  /\ cli \in {Cli(p, "main", "", FALSE) : p \in Programs}

NextCli ==
  \/ CliMain
  \/ CliInit
  \/ CliInject
  \/ \E runtimeExists \in BOOLEAN : CliWatch(runtimeExists)
  \/ CliProto
  \/ CliProxy
  \/ CliHelp

SpecCli == InitCli /\ [][NextCli]_vars

\* ------------------------------------------------------------ watch mode
\* The setTimeout calls of a run.
MaxTimers == 3

\* The characters of the modelled paths that \w accepts.
WordChars == {"a", "b", "j", "m", "s", "t"}

\* The index of the last "/" of s, 0 when it has none.
RECURSIVE LastSlash(_)
LastSlash(s) ==
  IF s = <<>> THEN 0
  ELSE IF s[Len(s)] = "/" THEN Len(s)
  ELSE LastSlash(SubSeq(s, 1, Len(s) - 1))

\* s without its trailing "/" characters.
RECURSIVE StripSlashes(_)
StripSlashes(s) ==
  IF s # <<>> /\ s[Len(s)] = "/" THEN StripSlashes(SubSeq(s, 1, Len(s) - 1))
  ELSE s

\* path.basename(filePath)
Basename(filePath) ==
  LET t == StripSlashes(filePath)
  IN SubSeq(t, LastSlash(t) + 1, Len(t))

\* /^[\w][-\w]*\.js$/.test(filename)
WatchedJs(filename) ==
  LET n == Len(filename) IN
    /\ n >= 4
    /\ filename[1] \in WordChars
    /\ \A i \in 2..(n - 3) : filename[i] \in WordChars \cup {"-"}
    /\ filename[n - 2] = "." /\ filename[n - 1] = "j" /\ filename[n] = "s"

\* The paths the watcher reports: m/a.js, m/b-.js, m/a.ts, m/-a.js and the
\* directory m/d.
FilePaths ==
  { <<"m", "/", "a", ".", "j", "s">>, <<"m", "/", "b", "-", ".", "j", "s">>,
    <<"m", "/", "a", ".", "t", "s">>, <<"m", "/", "-", "a", ".", "j", "s">>,
    <<"m", "/", "d", "/">> }

\* The events the watcher reports.
FileEvents == {"change", "unlink", "addDir", "error"}

\* The 'all' listener without its clearTimeout(timer).
OnAllNoClear(c, event, filePath) ==
  LET filename == Basename(filePath)
      seen == [c EXCEPT !.ran = "event",
                        !.event = [type |-> event, path |-> filePath,
                                   recorded |-> filePath \in c.pathsSet]]
  IN IF event = "addDir" \/ event = "error" THEN seen
     ELSE IF filename # <<>> /\ ~WatchedJs(filename) THEN seen
     ELSE IF filePath \in c.pathsSet THEN seen
     ELSE [seen EXCEPT !.pathsSet = @ \cup {filePath},
                       !.pending = @ \cup {c.timers + 1},
                       !.timer = c.timers + 1,
                       !.timers = @ + 1]

\* The 'all' listener of the watcher, called with (event, filePath).
OnAll(c, event, filePath) ==
  LET filename == Basename(filePath)
      seen == [c EXCEPT !.ran = "event",
                        !.event = [type |-> event, path |-> filePath,
                                   recorded |-> filePath \in c.pathsSet]]
  IN IF event = "addDir" \/ event = "error" THEN seen
     ELSE IF filename # <<>> /\ ~WatchedJs(filename) THEN seen
     ELSE IF filePath \in c.pathsSet THEN seen
     ELSE [seen EXCEPT !.pathsSet = @ \cup {filePath},
                       !.pending = (@ \ {c.timer}) \cup {c.timers + 1},
                       !.timer = c.timers + 1,
                       !.timers = @ + 1]

\* The callback of timer t: it regenerates the runtime configuration, has the
\* proxy server, when there is one, reload the recorded paths, and clears them.
OnTimeout(c, t) ==
  [c EXCEPT !.ran = "regen",
            !.runtime = @ + 1,
            !.reload = IF c.proxyServer THEN [called |-> TRUE, list |-> c.pathsSet]
                       ELSE NoReload,
            !.pathsSet = {},
            !.pending = @ \ {t}]

\* The watcher reports an event.
FileEvent(event, filePath) ==
  /\ cli.pc = "watching"
  /\ cli.timers < MaxTimers
  /\ cli' = OnAll(cli, event, filePath)
  /\ UNCHANGED mockerVars

\* A scheduled timer runs out.
TimerFires ==
  /\ cli.pc = "watching"
  /\ \E t \in cli.pending : cli' = OnTimeout(cli, t)
  /\ UNCHANGED mockerVars

\* The tool is started with --watch and neither --init nor --inject.
WatchPrograms ==
  { p \in Programs : ~p.init /\ ~p.inject /\ p.watch # "off" }

InitWatch ==
  /\ InitMocker
  /\ cli \in {Cli(p, "main", "", FALSE) : p \in WatchPrograms}

NextWatch ==
  \/ CliMain
  \/ \E runtimeExists \in BOOLEAN : CliWatch(runtimeExists)
  \/ \E event \in FileEvents, filePath \in FilePaths : FileEvent(event, filePath)
  \/ TimerFires

SpecWatch == InitWatch /\ [][NextWatch]_vars

\* The event loop runs the callback of a timer that stays scheduled.
SpecWatchFair == SpecWatch /\ WF_vars(TimerFires)

\* ------------------------------------------------------------ properties
Refs == 1..Len(heap)
Entries == 1..Len(mockConfigData)

\* The rule object at position i of the registry.
RuleAt(i) == heap[mockConfigData[i].ref]

\* The position of the rule object ref in the registry, 0 when it is not in it.
PosOf(ref) ==
  IF \E i \in Entries : mockConfigData[i].ref = ref
    THEN CHOOSE i \in Entries : mockConfigData[i].ref = ref
    ELSE 0

\* The criteria of the rule (method and url) accept the request.
Qualifies(info, req) ==
  /\ ~MethodDiffers(info, RequestMethod(req.method))
  /\ UrlMatches(info, req.url)

\* The rule is enabled and not exhausted.
Eligible(info) == info.disable # "yes" /\ ~(info.times.fin /\ info.times.n <= 0)

\* The object with which the key was first inserted into the registry.
FirstRegistered(key) == CHOOSE r \in Refs :
  heap[r].key = key /\ \A q \in Refs : heap[q].key = key => r <= q

\* The object of the latest registration of the key.
LatestRegistered(key) == CHOOSE r \in Refs :
  heap[r].key = key /\ \A q \in Refs : heap[q].key = key => q <= r

Max0(k) == IF k < 0 THEN 0 ELSE k

\* The rule object ref is in the registry, enabled, and the only rule of the
\* registry whose criteria accept the request.
SoleRule(ref, req) ==
  /\ PosOf(ref) > 0
  /\ heap[ref].disable # "yes"
  /\ Qualifies(heap[ref], req)
  /\ \A i \in Entries : mockConfigData[i].ref # ref => ~Qualifies(RuleAt(i), req)

\* C1 - Exhaustion.  For a rule registered with finite times N >= 1: its times
\* is N-k after k <= N responses and 0 afterwards; and whenever it is the only
\* rule accepting a request, the switch is enabled and no cycle on it is still
\* suspended (the calls come one after the other), a respond call for that
\* request matches the rule exactly when fewer than N responses were served
\* from it, and is a passthrough otherwise.
C1_Exhaustion ==
  \A ref \in Refs :
    (times0[ref].fin /\ times0[ref].n >= 1) =>
      /\ heap[ref].times = Finite(Max0(times0[ref].n - served[ref]))
      /\ \A req \in Requests :
           (SoleRule(ref, req) /\ ~disabled /\ Waiting(ref) = {}) =>
             LET m == MatchMockItem(heap, mockConfigData, disabled, req.url, req.method) IN
               IF served[ref] < times0[ref].n THEN m = ref ELSE m = Null

\* A rule registered with times 2 has served two responses, and the third
\* respond call for a request only it accepts was a passthrough.
C1_Witness ==
  \E ref \in Refs :
    /\ times0[ref] = Finite(2)
    /\ served[ref] = 2
    /\ heap[ref].times = Finite(0)
    /\ lastCall.op = "passthrough"
    /\ ~disabled
    /\ SoleRule(ref, lastCall.req)

\* C2 - At most N responses.  Under every interleaving of response cycles,
\* the number of cycles that return a response from a rule registered with
\* finite times N is at most N.
C2_AtMostTimesResponses ==
  \A ref \in Refs : times0[ref].fin => served[ref] <= times0[ref].n

\* C3 - times is never negative: every rule object's times is unbounded or an
\* integer >= 0.
C3_TimesNeverNegative ==
  \A ref \in Refs : heap[ref].times.fin => heap[ref].times.n >= 0

\* Two overlapping cycles on a rule with one remaining use have both
\* completed, and its times stands at 0.
C3_Witness ==
  \E ref \in Refs :
    /\ times0[ref].fin
    /\ served[ref] > times0[ref].n
    /\ heap[ref].times = Finite(0)

\* C4 - First match wins.  Whenever enabled, non-exhausted rules of the
\* registry accept the request of a match call, the call returns one of them,
\* and no other of them has a key that was inserted into the registry earlier.
C4_FirstMatchWins ==
  lastCall.op = "match" /\ ~disabled =>
    \A i \in Entries :
      (Eligible(RuleAt(i)) /\ Qualifies(RuleAt(i), lastCall.req)) =>
        /\ lastCall.ret # Null
        /\ FirstRegistered(heap[lastCall.ret].key) <= FirstRegistered(RuleAt(i).key)

\* A match call returned a rule with a short url matcher although a rule with
\* a longer, more specific one, inserted later, accepts the request too.
C4_Witness ==
  /\ lastCall.op = "match"
  /\ lastCall.ret # Null
  /\ \E i \in Entries :
       /\ mockConfigData[i].ref # lastCall.ret
       /\ Eligible(RuleAt(i))
       /\ Qualifies(RuleAt(i), lastCall.req)
       /\ Len(RuleAt(i).url.src) > Len(heap[lastCall.ret].url.src)

\* The keys of the registry, in property order.
Keys(cfg) == [i \in 1..Len(cfg) |-> cfg[i].key]

KeySet(cfg) == {cfg[i].key : i \in 1..Len(cfg)}

\* Some enabled, non-exhausted rule of the registry accepts the request.
SomeRuleAccepts(req) ==
  \E i \in Entries : Eligible(RuleAt(i)) /\ Qualifies(RuleAt(i), req)

\* C5 - Global disable.  A match call made while the switch is disabled
\* returns no-match, whatever the registry holds; enable and disable set the
\* switch and leave the rules, their order and their times untouched, so that a
\* match call made after enable returns what the registry alone determines.
C5_GlobalDisable ==
  /\ [](lastCall.op = "match" =>
          IF disabled THEN lastCall.ret = Null
          ELSE lastCall.ret # Null <=> SomeRuleAccepts(lastCall.req))
  /\ [][lastCall'.op \in {"enable", "disable"} =>
          /\ disabled' = (lastCall'.op = "disable")
          /\ heap' = heap
          /\ mockConfigData' = mockConfigData]_vars

\* A match call made while the switch is disabled returned no-match for a
\* request that a registered rule accepts.
C5_Witness ==
  /\ disabled
  /\ lastCall.op = "match"
  /\ lastCall.ret = Null
  /\ SomeRuleAccepts(lastCall.req)

\* C6 - reset clears all rules: after reset() has returned the registry is
\* empty, and with the switch enabled match returns no-match for every request.
C6_ResetClears ==
  lastCall.op = "reset" =>
    /\ mockConfigData = <<>>
    /\ \A req \in Requests :
         MatchMockItem(heap, mockConfigData, FALSE, req.url, req.method) = Null

\* C7 - Replace, not duplicate.  No key occurs twice in the registry and every
\* entry refers to the object of the latest registration of its key, so a match
\* call never returns a superseded registration; a mock call with a key that is
\* already present leaves the number of rules unchanged.
C7_ReplaceNotDuplicate ==
  /\ [](/\ \A i, j \in Entries :
             mockConfigData[i].key = mockConfigData[j].key => i = j
        /\ \A i \in Entries :
             mockConfigData[i].ref = LatestRegistered(mockConfigData[i].key)
        /\ (lastCall.op = "match" /\ lastCall.ret # Null) =>
             lastCall.ret = LatestRegistered(heap[lastCall.ret].key))
  /\ [][(/\ lastCall'.op = "mock"
         /\ lastCall'.ret # Null
         /\ heap'[lastCall'.ret].key \in KeySet(mockConfigData)) =>
          Len(mockConfigData') = Len(mockConfigData)]_vars

\* A match call returned the second registration of a key whose first
\* registration had another status.
C7_Witness ==
  /\ lastCall.op = "match"
  /\ lastCall.ret # Null
  /\ \E r \in Refs :
       /\ r < lastCall.ret
       /\ heap[r].key = heap[lastCall.ret].key
       /\ heap[r].status # heap[lastCall.ret].status

\* C8 - Position kept.  A successful mock call leaves the order of the keys
\* unchanged when its key is already in the registry, and adds its key after
\* all others when it is not; a match call returns the first rule in that order
\* that is enabled, not exhausted and accepts the request.
C8_PositionKept ==
  /\ [][(lastCall'.op = "mock" /\ lastCall'.ret # Null) =>
          LET key == heap'[lastCall'.ret].key IN
            /\ Keys(mockConfigData') =
                 IF key \in KeySet(mockConfigData)
                   THEN Keys(mockConfigData)
                   ELSE Append(Keys(mockConfigData), key)
            /\ mockConfigData'[IndexOfKey(mockConfigData', key)].ref = lastCall'.ret]_vars
  /\ []((lastCall.op = "match" /\ lastCall.ret # Null) =>
          \A i \in Entries :
            (Eligible(RuleAt(i)) /\ Qualifies(RuleAt(i), lastCall.req)) =>
              PosOf(lastCall.ret) <= i)

\* Rule A was inserted before rule B, A's key was registered again, and a
\* match call for a request both accept returned the new A.
C8_Witness ==
  /\ lastCall.op = "match"
  /\ lastCall.ret # Null
  /\ \E a, b \in Refs :
       /\ a < b
       /\ b < lastCall.ret
       /\ heap[a].key = heap[lastCall.ret].key
       /\ heap[b].key # heap[a].key
       /\ PosOf(b) > 0
       /\ Eligible(heap[b])
       /\ Qualifies(heap[b], lastCall.req)

\* C9 - Registration failure.  mock called with a specification from which no
\* key can be derived returns the failure value and leaves the rules, their
\* order, their times and the switch as they were.
C9_RegistrationFailure ==
  /\ [](\A s \in RuleSpecs :
          KeyOf(s) = NoKey =>
            Mock(heap, mockConfigData, s) =
              [heap |-> heap, cfg |-> mockConfigData, ret |-> Null])
  /\ [][(lastCall'.op = "mock" /\ lastCall'.ret = Null) =>
          /\ heap' = heap
          /\ mockConfigData' = mockConfigData
          /\ disabled' = disabled]_vars

\* A mock call on a non-empty registry returned the failure value.
C9_Witness ==
  /\ lastCall.op = "mock"
  /\ lastCall.ret = Null
  /\ Len(mockConfigData) > 0

\* C10 - Cancellation does not consume a use.  When a suspended cycle is
\* cancelled, no response is emitted for it, no rule's times changes, and if no
\* response was returned from the matched rule since the cycle started, the
\* rule's times is what it was before the cycle started.
C10_CancelKeepsTimes ==
  [][lastCall'.op = "cancel" =>
       \E c \in BagToSet(waiting) :
         /\ c.ref = lastCall'.ret
         /\ waiting' = waiting (-) SetToBag({c})
         /\ heap' = heap
         /\ served' = served
         /\ lastCall'.resp = NoResp
         /\ served'[c.ref] = c.s0 => heap'[c.ref].times = c.t0]_vars

\* A cycle on a rule with finite times was cancelled while suspended and the
\* rule still has the uses it was registered with.
C10_Witness ==
  /\ lastCall.op = "cancel"
  /\ times0[lastCall.ret].fin
  /\ heap[lastCall.ret].times = times0[lastCall.ret]

\* C11 - HEAD normalization.  Every response returned for a HEAD request has
\* the empty body, whatever body the matched rule carries and whichever call
\* registered it.
C11_HeadEmptyBody ==
  (lastCall.op = "respond" /\ ToLowerCase(lastCall.req.method) = "head") =>
    lastCall.resp.body = ""

\* A HEAD request was answered from a rule registered with method any and a
\* body, after another was answered from a rule registered through mock with
\* method HEAD and a body.
C11_Witness ==
  /\ lastCall.op = "respond"
  /\ lastCall.req.method = "HEAD"
  /\ heap[lastCall.ret].method = "any"
  /\ heap[lastCall.ret].body = "w"
  /\ lastCall.resp.body = ""
  /\ \E r \in Refs :
       heap[r].method = "HEAD" /\ heap[r].body = "x" /\ served[r] = 1

\* The request methods a caller may pass, in either letter case, and the
\* omitted one.
RequestMethods ==
  {"", "get", "GET", "post", "POST", "put", "PUT", "patch", "PATCH",
   "delete", "DELETE", "head", "HEAD"}

\* C12 - A wildcard rule with unbounded uses.  A rule registered with method
\* ANY and unbounded times keeps its times unbounded whatever number of
\* responses was returned from it, and while it is in the registry, enabled,
\* with the switch enabled, a match call for a url it accepts returns it or a
\* rule before it, for every request method, in either letter case or omitted.
C12_AnyUnbounded ==
  \A ref \in Refs :
    (ToLowerCase(heap[ref].method) = "any" /\ ~times0[ref].fin) =>
      /\ heap[ref].times = Infinity
      /\ \A req \in MethodRequests : \A m \in RequestMethods :
           (/\ PosOf(ref) > 0
            /\ heap[ref].disable # "yes"
            /\ ~disabled
            /\ UrlMatches(heap[ref], req.url)) =>
             LET r == MatchMockItem(heap, mockConfigData, disabled, req.url, m) IN
               /\ r # Null
               /\ PosOf(r) <= PosOf(ref)
               /\ MatchMockItem(heap, <<[key |-> heap[ref].key, ref |-> ref]>>,
                                disabled, req.url, m) = ref

\* A rule with method any and unbounded times has returned two responses, its
\* times is still unbounded, and a match call with method post returned it.
C12_Witness ==
  /\ lastCall.op = "match"
  /\ lastCall.req.method = "post"
  /\ lastCall.ret # Null
  /\ heap[lastCall.ret].method = "any"
  /\ times0[lastCall.ret] = Infinity
  /\ heap[lastCall.ret].times = Infinity
  /\ served[lastCall.ret] = 2

\* The registry without the rules whose evaluation raises.
WithoutFaulty(cfg) == SelectSeq(cfg, LAMBDA e : heap[e.ref].url # Malformed)

\* C13 - Per-rule error containment.  A match call made on a registry holding
\* rules whose evaluation raises returns a rule or no-match, and what it
\* returns is what it returns on the same registry without those rules.
C13_ErrorContained ==
  [][lastCall'.op = "match" =>
       /\ lastCall'.ret \in Refs \cup {Null}
       /\ lastCall'.ret =
            MatchMockItem(heap, WithoutFaulty(mockConfigData), disabled,
                          lastCall'.req.url, lastCall'.req.method)]_vars

\* A match call returned a rule that comes after an enabled rule with a
\* malformed pattern and a method that accepts the request.
C13_Witness ==
  /\ lastCall.op = "match"
  /\ lastCall.ret # Null
  /\ \E i \in Entries :
       /\ i < PosOf(lastCall.ret)
       /\ RuleAt(i).url = Malformed
       /\ Eligible(RuleAt(i))
       /\ ~MethodDiffers(RuleAt(i), RequestMethod(lastCall.req.method))

\* C14 - match is pure.  A match call leaves the rules, their order, their
\* times and disable flags, the switch and the log toggle as they were, and
\* the same call made again right after it returns the same result.
C14_MatchPure ==
  [][lastCall'.op = "match" =>
       /\ mockConfigData' = mockConfigData
       /\ disabled' = disabled
       /\ log' = log
       /\ Len(heap') = Len(heap)
       /\ \A ref \in Refs :
            /\ heap'[ref].times = heap[ref].times
            /\ heap'[ref].disable = heap[ref].disable
       /\ MatchMockItem(heap', mockConfigData', disabled',
                        lastCall'.req.url, lastCall'.req.method) = lastCall'.ret]_vars

\* C15 - A delay does not block.  While cycles are suspended in their delay
\* every call can still be made: match and respond for every request (a rule
\* without delay answers at once), registrations, and the switches; and
\* each suspended cycle can complete.
C15_DelayDoesNotBlock ==
  (waiting # EmptyBag /\ lastCall = NoCall) =>
    /\ \A req \in Requests :
         /\ ENABLED DoMatch(req)
         /\ (started < MaxCycles \/
               MatchMockItem(heap, mockConfigData, disabled, req.url, req.method) = Null)
              => ENABLED DoRespond(req)
    /\ \A s \in RuleSpecs : (Len(heap) < MaxObjs) => ENABLED DoMock(s)
    /\ ENABLED DoReset
    /\ ENABLED DoEnable
    /\ ENABLED DoDisable
    /\ \A c \in BagToSet(waiting) : ENABLED DoComplete(c)

\* A cycle that matched a rule without delay has returned its response while
\* a cycle started before it is still suspended in its delay.
C15_Witness ==
  /\ lastCall.op = "respond"
  /\ heap[lastCall.ret].delay = 0
  /\ \E c \in BagToSet(waiting) :
       /\ c.ref # lastCall.ret
       /\ heap[c.ref].delay > 0

\* C16 - Proxy mode.  When the tool is started with proxy mode matched or
\* marked and none of init, inject, watch and proto, main() has the proxy
\* server started with that mode and does not show the help.
C16_ProxyStartsServer ==
  LET p == cli.program IN
    (/\ cli.pc \in {"idle", "exited"}
     /\ ~p.init /\ ~p.inject /\ p.watch = "off" /\ ~p.proto
     /\ p.proxy \in {"matched", "marked"}) =>
      /\ cli.serverInit = p.proxy
      /\ ~cli.helped

\* C17 - Skipped rules do not shadow later ones.  When a rule that accepts the
\* request of a match call is disabled or exhausted, and a rule after it is
\* the first enabled, non-exhausted rule that accepts the request, the call
\* returns that later rule; and an entry of the registry, exhausted or not,
\* keeps its place and its key, and its object until a registration with the
\* same key replaces it.
C17_SkippedDoNotShadow ==
  /\ []((lastCall.op = "match" /\ ~disabled) =>
          \A i, j \in Entries :
            (/\ i < j
             /\ ~Eligible(RuleAt(i))
             /\ Qualifies(RuleAt(i), lastCall.req)
             /\ Eligible(RuleAt(j))
             /\ Qualifies(RuleAt(j), lastCall.req)
             /\ \A k \in 1..(j - 1) :
                  ~(Eligible(RuleAt(k)) /\ Qualifies(RuleAt(k), lastCall.req))) =>
              lastCall.ret = mockConfigData[j].ref)
  /\ [][/\ Len(mockConfigData') >= Len(mockConfigData)
         /\ \A i \in Entries :
              /\ mockConfigData'[i].key = mockConfigData[i].key
              /\ mockConfigData'[i].ref # mockConfigData[i].ref =>
                   /\ lastCall'.op \in {"mock", "setMockData"}
                   /\ heap'[mockConfigData'[i].ref].key = mockConfigData[i].key]_vars

\* A match call returned the second rule of the registry while the first one,
\* which accepts the request too, has served its only use and is still there.
C17_Witness ==
  /\ lastCall.op = "match"
  /\ Len(mockConfigData) >= 2
  /\ lastCall.ret = mockConfigData[2].ref
  /\ RuleAt(1).disable # "yes"
  /\ Qualifies(RuleAt(1), lastCall.req)
  /\ RuleAt(1).times = Finite(0)
  /\ served[mockConfigData[1].ref] = 1

\* The url test the rule is registered for: its pattern matches the url, or,
\* for a plain string, the url contains it.
UrlTest(info, reqUrl) ==
  IF info.url.re THEN RegExpTest(info.url.src, reqUrl)
  ELSE Contains(reqUrl, info.url.src)

\* C18 - The url test.  A match call returns a rule only if the rule's url
\* test accepts the url (a pattern rule never matches a url its pattern
\* rejects), and it returns a rule whenever the url test and the method of an
\* enabled, non-exhausted rule accept the request and the switch is enabled.
C18_UrlTest ==
  lastCall.op = "match" =>
    /\ lastCall.ret # Null => UrlTest(heap[lastCall.ret], lastCall.req.url)
    /\ \A i \in Entries :
         (/\ ~disabled
          /\ Eligible(RuleAt(i))
          /\ ~MethodDiffers(RuleAt(i), RequestMethod(lastCall.req.method))
          /\ UrlTest(RuleAt(i), lastCall.req.url)) => lastCall.ret # Null

\* The calls that are neither enable nor disable.
OtherCalls ==
  {"mock", "setMockData", "get", "post", "put", "patch", "delete", "head", "any",
   "reset", "match", "passthrough", "respond", "suspend", "cancel",
   "disableLog", "enableLog"}

\* C19 - The switch.  The switch is enabled after construction; a step that
\* changes it is an enable or a disable call; mock, setMockData, the per-method
\* registration calls, reset, match, the steps of a response cycle and the log
\* toggles leave it as it was; and reset leaves the log toggle as it was.
C19_SwitchFrame ==
  /\ ~disabled
  /\ [][disabled' # disabled => lastCall'.op \in {"enable", "disable"}]_vars
  /\ [][lastCall'.op \in OtherCalls => disabled' = disabled]_vars
  /\ [][lastCall'.op = "reset" => log' = log]_vars

\* reset has returned on a registry holding a rule registered through post,
\* with the switch disabled and logging on.
C19_Witness ==
  /\ lastCall.op = "reset"
  /\ disabled
  /\ log
  /\ \E i \in Entries : RuleAt(i).method = "post"

\* The registry after mock was called on the first n entries of data, one call
\* after the other.
RECURSIVE RegisterEach(_, _, _, _)
RegisterEach(hp, cfg, data, n) ==
  IF n = 0 THEN [heap |-> hp, cfg |-> cfg]
  ELSE LET r == RegisterEach(hp, cfg, data, n - 1)
           m == Mock(r.heap, r.cfg, data[n])
       IN [heap |-> m.heap, cfg |-> m.cfg]

\* C20 - Bulk registration.  setMockData leaves the registry that mock called
\* on each entry of the mapping, in its iteration order, leaves: an entry
\* without a key is passed over and the entries after it are registered, and
\* the rules whose keys are not in the mapping keep their place and object.
C20_BulkIsRegisterEach ==
  [][\A data \in MockData \cup MethodMockData \cup PatternMockData :
       DoSetMockData(data) =>
         LET r == RegisterEach(heap, mockConfigData, data, Len(data)) IN
           /\ heap' = r.heap
           /\ mockConfigData' = r.cfg
           /\ \A i \in 1..Len(data) :
                KeyOf(data[i]) # NoKey => KeyOf(data[i]) \in KeySet(mockConfigData')
           /\ \A i \in Entries :
                mockConfigData[i].key \notin {KeyOf(data[k]) : k \in 1..Len(data)} =>
                  mockConfigData'[i] = mockConfigData[i]]_vars

\* setMockData has returned: the rule that was in the registry before is
\* still first, and the entries before and after the key-less entry of the
\* mapping follow it.
C20_Witness ==
  /\ lastCall.op = "setMockData"
  /\ Len(mockConfigData) = 3
  /\ RuleAt(1).method = "any"
  /\ RuleAt(2).url = Str(<<"a", "b">>)
  /\ RuleAt(3).url = Str(<<"a">>)
  /\ RuleAt(3).status = 404
  /\ mockConfigData[3].ref = Len(heap)

\* C21 - Singleton registry.  Every new Mocker() and every getInstance call
\* returns the first Mocker object, which stays Mocker.instance; and such a
\* call made when a Mocker exists leaves the rules, the switch and the log
\* toggle of that object as they were.
C21_Singleton ==
  /\ [](lastCall.op \in {"new", "getInstance"} =>
          lastCall.ret = FirstMocker /\ instance = FirstMocker)
  /\ [][(lastCall'.op \in {"new", "getInstance"} /\ instance # NoMocker) =>
          /\ instance' = instance
          /\ mockConfigData' = mockConfigData
          /\ heap' = heap
          /\ disabled' = disabled
          /\ log' = log]_vars

\* A Mocker was constructed after the first one, which holds a rule, has its
\* switch disabled and its logging on; a further getInstance call returned.
C21_Witness ==
  /\ lastCall.op = "getInstance"
  /\ created = MaxMockers
  /\ Len(mockConfigData) > 0
  /\ disabled
  /\ log

\* The file event delivered last is for filePath and qualifies: it is neither
\* addDir nor error and its file name matches the watched pattern.
QualifyingEvent(filePath) ==
  /\ cli.ran = "event"
  /\ cli.event.path = filePath
  /\ cli.event.type \notin {"addDir", "error"}
  /\ WatchedJs(Basename(filePath))

\* At most one timer is scheduled, and paths are recorded only while one is.
DebounceInv ==
  /\ Cardinality(cli.pending) <= 1
  /\ cli.pathsSet # {} => cli.pending # {}

\* C22 - Watch-mode debounce, as stated.  At most one regeneration timer is
\* pending, paths are recorded only while a timer is pending, and every
\* qualifying file event is eventually followed by a regeneration whose reload
\* list contains the path of the event.
C22_DebounceReloads ==
  /\ []DebounceInv
  /\ \A filePath \in FilePaths :
       QualifyingEvent(filePath) ~>
         (cli.ran = "regen" /\ cli.reload.called /\ filePath \in cli.reload.list)

\* C22 - Watch-mode debounce, amended.  At most one regeneration timer is
\* pending, paths are recorded only while a timer is pending, and every
\* qualifying file event, be its path recorded already or not, is eventually
\* followed by a regeneration of the runtime configuration; that regeneration
\* reloads a list containing the path of the event when watch() started the
\* proxy server (proxy mode matched or marked), and reloads nothing otherwise.
C22_Debounce ==
  /\ []DebounceInv
  /\ [][cli'.ran = "regen" =>
          /\ cli'.runtime = cli.runtime + 1
          /\ cli'.reload.called = ProxyEitherMode(cli.program)
          /\ cli'.reload.list = IF cli.proxyServer THEN cli.pathsSet ELSE {}]_vars
  /\ \A filePath \in FilePaths :
       QualifyingEvent(filePath) ~>
         /\ cli.ran = "regen"
         /\ cli.proxyServer => filePath \in cli.reload.list

\* A second regeneration has run, after an event for a path that was recorded
\* already, and the proxy server reloaded that path.
C22_Witness ==
  /\ cli.ran = "regen"
  /\ cli.runtime >= 3
  /\ cli.event.recorded
  /\ cli.event.type \notin {"addDir", "error"}
  /\ cli.reload.called
  /\ cli.event.path \in cli.reload.list
====
